---- MODULE Spec2Model ----
(***************************************************************************)
(* ErspIntegration (src/ersp_integration.py): the response classifier      *)
(* _handle_response, the table extraction _parse_table_rows_to_list and    *)
(* the three report fetches built on them.                                 *)
(*                                                                         *)
(* Text is a sequence of one-character strings, so that str.strip, the     *)
(* substring test `in` and str.split are computed, not assumed.            *)
(***************************************************************************)
EXTENDS Integers, Sequences, FiniteSets, TLC

VARIABLES
    pc,             \* position of the running call ("idle" before any call)
    caller,         \* "none" | "direct" | "fetch": who invoked the running helper
    response,       \* the aiohttp response handed to _handle_response
    body_cache,     \* response._body: <<>> until the first text(), then <<body>>
    reads,          \* number of `await response.text()` evaluated on the response
    r_text,         \* local r_text of _handle_response (line 40)
    marker_checked, \* the condition of lines 41-42 has been evaluated
    h_out,          \* what _handle_response produced: a return or a raise
    table,          \* argument `table` of _parse_table_rows_to_list
    include_blank_rows, \* argument include_blank_rows
    headers,        \* local headers
    row_idx,        \* index into table.find_all('tr') of the loop of line 159
    rows,           \* local rows, the list being returned
    p_out,          \* what _parse_table_rows_to_list produced
    report,         \* which fetch_* method is running
    report_tables,  \* fetch_activity_report: soup.select("table.functionLayout")
    tbl_idx,        \* fetch_activity_report: position of the loop of line 285
    this_title,     \* fetch_activity_report: local this_title
    report_tables_processed, \* fetch_activity_report: the list being returned
    f_out           \* what the fetch_* method produced

hvars == <<response, body_cache, reads, r_text, marker_checked, h_out>>
pvars == <<table, include_blank_rows, headers, row_idx, rows, p_out>>
fvars == <<report, report_tables, tbl_idx, this_title, report_tables_processed, f_out>>
vars == <<pc, caller, hvars, pvars, fvars>>

----------------------------------------------------------------------------
(* Bounds of the explored inputs *)

\* longest body text handed directly to _handle_response
MaxBodyLen == 4

\* most rows of a table handed directly to _parse_table_rows_to_list
MaxRows == 3

\* most tables on a fetched page
MaxTables == 2

----------------------------------------------------------------------------
(* Text helpers *)

NL == "\n"
Whitespace == {" ", NL}

\* s[a..b] as a sequence, empty when a > b
Slice(s, a, b) == [i \in 1..(b - a + 1) |-> s[a + i - 1]]

\* Python: sub in s
Contains(sub, s) ==
    \E i \in 0..(Len(s) - Len(sub)) :
        \A j \in 1..Len(sub) : s[i + j] = sub[j]

\* all sequences over S of length at most n
SeqsUpTo(S, n) == UNION {[1..k -> S] : k \in 0..n}

RECURSIVE LStrip(_)
LStrip(s) == IF s # <<>> /\ Head(s) \in Whitespace THEN LStrip(Tail(s)) ELSE s

RECURSIVE RStrip(_)
RStrip(s) ==
    IF s # <<>> /\ s[Len(s)] \in Whitespace THEN RStrip(Slice(s, 1, Len(s) - 1)) ELSE s

\* Python: s.strip()
Strip(s) == RStrip(LStrip(s))

RECURSIVE FirstLine(_)
\* Python: s.split('\n')[0]
FirstLine(s) ==
    IF s = <<>> \/ Head(s) = NL THEN <<>> ELSE <<Head(s)>> \o FirstLine(Tail(s))

RECURSIVE Digits(_)
\* Python: str(n) for n >= 0
Digits(n) ==
    LET d == <<"0", "1", "2", "3", "4", "5", "6", "7", "8", "9">>[(n % 10) + 1]
    IN IF n < 10 THEN <<d>> ELSE Digits(n \div 10) \o <<d>>

\* the largest element of a non-empty set of integers
Max(S) == CHOOSE m \in S : \A k \in S : k <= m

RECURSIVE Concat(_)
\* ''.join(ss)
Concat(ss) == IF ss = <<>> THEN <<>> ELSE Head(ss) \o Concat(Tail(ss))

----------------------------------------------------------------------------
(* Documents: the text of a response body.  `text` is the character data   *)
(* outside tables, `tables` the <table> elements in page order; a table is *)
(* [marker, rows], a row a sequence of cells, a cell [tag, text].          *)

CellTexts(row) == [i \in 1..Len(row) |-> row[i].text]
RowText(row) == Concat(CellTexts(row))
TableText(t) == Concat([i \in 1..Len(t.rows) |-> RowText(t.rows[i])])

\* the body as one string, the operand of `in` at lines 41-42
Serialize(body) ==
    body.text \o Concat([i \in 1..Len(body.tables) |-> TableText(body.tables[i])])

NoBody == [text |-> <<>>, tables |-> <<>>]

----------------------------------------------------------------------------
(* _handle_response (lines 37-68) *)

\* the literals of lines 41-42 over the alphabet BodyChars:
\* "lg" stands for loginApp, "<lg>" for the div that embeds it
LoginApp == <<"l", "g">>
LoginDiv == <<"<", "l", "g", ">">>

BodyChars == {"l", "g", "<", ">"}

Statuses == {200, 201, 301, 302, 399, 400, 404, 499, 500, 503}

Outcome(kind, cls, carries, status_code, value) ==
    [kind |-> kind, cls |-> cls, carries |-> carries,
     status_code |-> status_code, value |-> value]

NoOutcome == Outcome("none", "", {}, <<>>, NoBody)

\* faulty variant of LooksLikeLoginPage: only the div literal is tested
LooksLikeLoginOnlyDiv(text) == Contains(LoginDiv, text)
\* the condition of lines 41-42
LooksLikeLoginPage(text) ==
    Contains(LoginDiv, text) \/ Contains(LoginApp, text)

\* `await response.text()`: aiohttp reads the payload once and keeps it in
\* response._body; later calls return the kept text
ResponseText == IF body_cache = <<>> THEN response.body ELSE body_cache[1]

\* lines 49-68: the exception raised for a status other than 200.
\* carries: the response fields interpolated in the message;
\* status_code: the third argument of IntegrationAPIError, <<>> when omitted
\* faulty variant of FailureFor (below): 500 falls in the 4xx range
FailureInclusive500(status, text) ==
    IF 400 <= status /\ status <= 500
    THEN Outcome("raise", "IntegrationAuthError", {"status", "reason", "text"}, <<>>, text)
    ELSE IF status = 302
    THEN Outcome("raise", "IntegrationAPIError", {"url", "text"}, <<>>, text)
    ELSE Outcome("raise", "IntegrationAPIError", {"status", "headers"}, <<status>>, NoBody)
\* lines 49-68 as written
FailureFor(status, text) ==
    IF 400 <= status /\ status < 500
    THEN Outcome("raise", "IntegrationAuthError", {"status", "reason", "text"}, <<>>, text)
    ELSE IF status = 302
    THEN Outcome("raise", "IntegrationAPIError", {"url", "text"}, <<>>, text)
    ELSE Outcome("raise", "IntegrationAPIError", {"status", "headers"}, <<status>>, NoBody)

\* a direct call of _handle_response (line 35) on a response of the transport
CallHandleResponse ==
    /\ pc = "idle"
    /\ \E status \in Statuses, text \in SeqsUpTo(BodyChars, MaxBodyLen) :
         response' = [status |-> status, body |-> [text |-> text, tables |-> <<>>]]
    /\ pc' = "h_status"
    /\ caller' = "direct"
    /\ UNCHANGED <<body_cache, reads, r_text, marker_checked, h_out, pvars, fvars>>

\* line 38
HStatus ==
    /\ pc = "h_status"
    /\ pc' = IF response.status = 200 THEN "h_read" ELSE "h_fail"
    /\ UNCHANGED <<caller, hvars, pvars, fvars>>

\* line 40
HRead ==
    /\ pc = "h_read"
    /\ r_text' = ResponseText
    /\ body_cache' = <<ResponseText>>
    /\ reads' = reads + 1
    /\ pc' = "h_marker"
    /\ UNCHANGED <<caller, response, marker_checked, h_out, pvars, fvars>>

\* lines 41-45
HMarker ==
    /\ pc = "h_marker"
    /\ marker_checked' = TRUE
    /\ IF LooksLikeLoginPage(Serialize(r_text))
       THEN /\ h_out' = Outcome("raise", "IntegrationAuthError", {"url"}, <<>>, NoBody)
            /\ pc' = "h_done"
       ELSE /\ h_out' = h_out
            /\ pc' = "h_return"
    /\ UNCHANGED <<caller, response, body_cache, reads, r_text, pvars, fvars>>

\* line 47: the returned value is a second `await response.text()`
HReturn ==
    /\ pc = "h_return"
    /\ h_out' = Outcome("return", "", {}, <<>>, ResponseText)
    /\ body_cache' = <<ResponseText>>
    /\ reads' = reads + 1
    /\ pc' = "h_done"
    /\ UNCHANGED <<caller, response, r_text, marker_checked, pvars, fvars>>

\* lines 49-68: the 4xx and 302 messages interpolate `await response.text()`
HFail ==
    /\ pc = "h_fail"
    /\ LET readsBody == "text" \in FailureFor(response.status, ResponseText).carries
       IN /\ h_out' = FailureFor(response.status, ResponseText)
          /\ body_cache' = IF readsBody THEN <<ResponseText>> ELSE body_cache
          /\ reads' = IF readsBody THEN reads + 1 ELSE reads
    /\ pc' = "h_done"
    /\ UNCHANGED <<caller, response, r_text, marker_checked, pvars, fvars>>

HandleSteps == HStatus \/ HRead \/ HMarker \/ HReturn \/ HFail

----------------------------------------------------------------------------
(* _parse_table_rows_to_list (lines 119-177) *)

Td(text) == [tag |-> "td", text |-> text]
Th(text) == [tag |-> "th", text |-> text]

\* tr.find_all('td'), tr.find_all('th'); find_all(['td', 'th']) is the row itself
TdCells(tr) == SelectSeq(tr, LAMBDA c : c.tag = "td")
ThCells(tr) == SelectSeq(tr, LAMBDA c : c.tag = "th")

\* [c.text.strip() for c in cells]
StrippedTexts(cells) == [i \in 1..Len(cells) |-> Strip(cells[i].text)]

\* faulty variant of HeaderRowHeaders: td cells are preferred to th cells
HeaderRowHeadersTdFirst(trs) ==
    IF trs = <<>> THEN <<>>
    ELSE IF TdCells(trs[1]) # <<>>
         THEN StrippedTexts(TdCells(trs[1]))
         ELSE StrippedTexts(ThCells(trs[1]))
\* lines 136-145: the headers read from table.find('tr'), [] when there is no row
HeaderRowHeaders(trs) ==
    IF trs = <<>> THEN <<>>
    ELSE IF ThCells(trs[1]) # <<>>
         THEN StrippedTexts(ThCells(trs[1]))
         ELSE StrippedTexts(TdCells(trs[1]))

\* line 150, for a table with at least one row
MaxCols(trs) == Max({Len(trs[i]) : i \in 1..Len(trs)})

\* f'Column_{i + 1}' with i + 1 = n
ColumnName(n) == <<"C", "o", "l", "u", "m", "n", "_">> \o Digits(n)

\* line 151
GenericHeaders(trs) == [n \in 1..MaxCols(trs) |-> ColumnName(n)]

\* lines 154-155
PatchHeaders(hs) ==
    IF \E i \in 1..Len(hs) : \E j \in 1..Len(hs[i]) : hs[i][j] = NL
    THEN [i \in 1..Len(hs) |-> FirstLine(hs[i])]
    ELSE hs

\* line 164
HasData(cells) == \E i \in 1..Len(cells) : Strip(cells[i].text) # <<>>

\* faulty variant of CellValue: the bound is off by one, the last cell is padded
CellValueDropsLast(cells, i) == IF i < Len(cells) THEN Strip(cells[i].text) ELSE <<>>
\* lines 168-173: the value stored under the header at position i
CellValue(cells, i) == IF i <= Len(cells) THEN Strip(cells[i].text) ELSE <<>>

RECURSIVE RowDataUpTo(_, _, _)
\* lines 160, 167-173: row_data after the first n headers; a later header with the
\* same name overwrites the earlier entry
RowDataUpTo(hs, cells, n) ==
    IF n = 0 THEN <<>>
    ELSE LET prev == RowDataUpTo(hs, cells, n - 1)
         IN [k \in (DOMAIN prev) \cup {hs[n]} |->
                IF k = hs[n] THEN CellValue(cells, n) ELSE prev[k]]

\* faulty variant of RowData: headers past the last cell get no entry
RowDataPresentCells(hs, cells) ==
    RowDataUpTo(hs, cells, IF Len(cells) < Len(hs) THEN Len(cells) ELSE Len(hs))
\* lines 160-173: row_data of one emitted row
RowData(hs, cells) == RowDataUpTo(hs, cells, Len(hs))

\* faulty variant of Emits: the blank-row test is skipped
EmitsAlways(cells, blank) == TRUE
\* line 166
Emits(cells, blank) == HasData(cells) \/ blank

\* the rows offered to direct calls: with and without th, ragged, blank,
\* needing strip, with an embedded line break, with duplicate names
ParseRows ==
    { <<>>,
      <<Th(<<"A">>), Th(<<"B">>)>>,
      <<Td(<<" ", "A", " ">>), Td(<<"B">>)>>,
      <<Th(<<"A">>), Td(<<"B">>)>>,
      <<Th(<<"A", NL, "B">>), Th(<<"A">>)>>,
      <<Td(<<"x">>), Td(<<"y">>)>>,
      <<Td(<<"z">>)>>,
      <<Td(<<" ">>), Td(<<>>)>>,
      <<Td(<<"x">>), Td(<<" ", "y", NL>>), Td(<<"z">>)>>,
      <<Td(<<>>), Td(<<>>), Td(<<"z">>)>>,
      <<Th(<<"x">>)>> }

\* a direct call of _parse_table_rows_to_list on a table that is present
CallParse ==
    /\ pc = "idle"
    /\ \E trs \in SeqsUpTo(ParseRows, MaxRows), blank \in BOOLEAN :
         /\ table' = [present |-> TRUE, rows |-> trs]
         /\ include_blank_rows' = blank
    /\ pc' = "p_headers"
    /\ caller' = "direct"
    /\ UNCHANGED <<headers, row_idx, rows, p_out, hvars, fvars>>

\* lines 136-151: table.find on None raises AttributeError, max() of no row
\* raises ValueError
PHeaders ==
    /\ pc = "p_headers"
    /\ IF ~table.present
       THEN /\ p_out' = [kind |-> "raise", cls |-> "AttributeError"]
            /\ pc' = "p_done"
            /\ headers' = headers
       ELSE IF HeaderRowHeaders(table.rows) # <<>>
       THEN /\ headers' = HeaderRowHeaders(table.rows)
            /\ pc' = "p_patch"
            /\ p_out' = p_out
       ELSE IF table.rows = <<>>
       THEN /\ p_out' = [kind |-> "raise", cls |-> "ValueError"]
            /\ pc' = "p_done"
            /\ headers' = headers
       ELSE /\ headers' = GenericHeaders(table.rows)
            /\ pc' = "p_patch"
            /\ p_out' = p_out
    /\ UNCHANGED <<caller, table, include_blank_rows, row_idx, rows, hvars, fvars>>

\* lines 153-158; the loop of line 159 starts at the second row
PPatch ==
    /\ pc = "p_patch"
    /\ headers' = PatchHeaders(headers)
    /\ rows' = <<>>
    /\ row_idx' = 2
    /\ pc' = "p_rows"
    /\ UNCHANGED <<caller, table, include_blank_rows, p_out, hvars, fvars>>

\* lines 159-175, one iteration
PRow ==
    /\ pc = "p_rows"
    /\ row_idx <= Len(table.rows)
    /\ LET cells == TdCells(table.rows[row_idx])
       IN rows' = IF Emits(cells, include_blank_rows)
                  THEN Append(rows, RowData(headers, cells))
                  ELSE rows
    /\ row_idx' = row_idx + 1
    /\ UNCHANGED <<pc, caller, table, include_blank_rows, headers, p_out, hvars, fvars>>

\* line 177
PReturn ==
    /\ pc = "p_rows"
    /\ row_idx > Len(table.rows)
    /\ p_out' = [kind |-> "return", cls |-> ""]
    /\ pc' = "p_done"
    /\ UNCHANGED <<caller, table, include_blank_rows, headers, row_idx, rows, hvars, fvars>>

ParseSteps == PHeaders \/ PPatch \/ PRow \/ PReturn

----------------------------------------------------------------------------
(* fetch_comfort_keepers_report (179-226), fetch_activity_report (228-293), *)
(* fetch_calls_clocks_log (295-322)                                        *)

Reports == {"comfort_keepers", "activity", "calls_clocks"}

\* the selector each report hands to soup.select_one / soup.select
SelectorOf(rep) ==
    IF rep = "calls_clocks" THEN "table#callLogListing" ELSE "table.functionLayout"

\* soup.select(selector): the matching tables in page order
Select(tables, selector) == SelectSeq(tables, LAMBDA t : t.marker = selector)

\* soup.select_one(selector): the first match, or None
SelectOne(tables, selector) ==
    LET all == Select(tables, selector)
    IN IF all = <<>> THEN [present |-> FALSE, rows |-> <<>>]
       ELSE [present |-> TRUE, rows |-> all[1].rows]

\* first_row.text.strip() (line 287)
TitleOf(tr) == Strip(RowText(tr))

\* {this_title: table_data} (line 291)
Section(title, data) == [t \in {title} |-> data]

JaneRow == <<Td(<<"J", "a", "n", "e", " ", "D", "o", "e", NL>>)>>
KayRow == <<Td(<<" ", "K", "a", "y">>), Td(<<" ">>)>>
HeaderRow == <<Th(<<"A">>), Th(<<"B">>)>>

\* the tables a fetched page is made of: without rows, with the title row
\* only, with title and header rows, with data rows, with equal titles
PageRowLists ==
    { <<>>,
      <<JaneRow>>,
      <<JaneRow, HeaderRow>>,
      <<JaneRow, HeaderRow, <<Td(<<"x">>), Td(<<"y">>)>>, <<Td(<<"z">>)>> >>,
      <<JaneRow, HeaderRow, <<Td(<<"z">>)>> >>,
      <<KayRow, HeaderRow, <<Td(<<"x">>), Td(<<"y">>)>> >> }

PageTables ==
    [marker : {"table.functionLayout", "table#callLogListing"}, rows : PageRowLists]

FetchStatuses == {200, 302, 404, 503}
FetchTexts == {<<>>, LoginDiv}

NoResult == [kind |-> "none", cls |-> "", value |-> <<>>]

\* a fetch_* call up to the request (lines 219, 280, 316): _make_request hands
\* the transport's response to _handle_response
CallFetch ==
    /\ pc = "idle"
    /\ \E rep \in Reports, status \in FetchStatuses, text \in FetchTexts,
          page \in SeqsUpTo(PageTables, MaxTables) :
         /\ report' = rep
         /\ response' = [status |-> status, body |-> [text |-> text, tables |-> page]]
    /\ pc' = "h_status"
    /\ caller' = "fetch"
    /\ UNCHANGED <<body_cache, reads, r_text, marker_checked, h_out, pvars,
                   report_tables, tbl_idx, this_title, report_tables_processed, f_out>>

\* a failure raised by _handle_response is not caught by the fetch
FRequestRaised ==
    /\ pc = "h_done" /\ caller = "fetch"
    /\ h_out.kind = "raise"
    /\ f_out' = [kind |-> "raise", cls |-> h_out.cls, value |-> <<>>]
    /\ pc' = "f_done"
    /\ UNCHANGED <<caller, hvars, pvars, report, report_tables, tbl_idx, this_title,
                   report_tables_processed>>

\* lines 222-225 and 318-320: select_one, then the call of the extraction
FSelectOne ==
    /\ pc = "h_done" /\ caller = "fetch"
    /\ h_out.kind = "return"
    /\ report \in {"comfort_keepers", "calls_clocks"}
    /\ table' = SelectOne(h_out.value.tables, SelectorOf(report))
    /\ include_blank_rows' = FALSE
    /\ pc' = "p_headers"
    /\ UNCHANGED <<caller, hvars, headers, row_idx, rows, p_out, fvars>>

\* lines 281-284
FSelectAll ==
    /\ pc = "h_done" /\ caller = "fetch"
    /\ h_out.kind = "return"
    /\ report = "activity"
    /\ report_tables' = Select(h_out.value.tables, SelectorOf(report))
    /\ report_tables_processed' = <<>>
    /\ tbl_idx' = 1
    /\ pc' = "f_loop"
    /\ UNCHANGED <<caller, hvars, pvars, report, this_title, f_out>>

\* lines 285-290 for one table: select_one("tr") is None for a table without
\* rows and None.text raises AttributeError; otherwise the title row is read,
\* removed, and the rest is handed to the extraction
FLoop ==
    /\ pc = "f_loop"
    /\ tbl_idx <= Len(report_tables)
    /\ IF report_tables[tbl_idx].rows = <<>>
       THEN /\ f_out' = [kind |-> "raise", cls |-> "AttributeError", value |-> <<>>]
            /\ pc' = "f_done"
            /\ UNCHANGED <<this_title, pvars>>
       ELSE /\ this_title' = TitleOf(report_tables[tbl_idx].rows[1])
            /\ table' = [present |-> TRUE, rows |-> Tail(report_tables[tbl_idx].rows)]
            /\ include_blank_rows' = FALSE
            /\ headers' = <<>>
            /\ rows' = <<>>
            /\ row_idx' = 0
            /\ p_out' = [kind |-> "none", cls |-> ""]
            /\ pc' = "p_headers"
            /\ f_out' = f_out
    /\ UNCHANGED <<caller, hvars, report, report_tables, tbl_idx, report_tables_processed>>

\* line 291
FAppend ==
    /\ pc = "p_done" /\ caller = "fetch"
    /\ report = "activity"
    /\ p_out.kind = "return"
    /\ report_tables_processed' = Append(report_tables_processed, Section(this_title, rows))
    /\ tbl_idx' = tbl_idx + 1
    /\ pc' = "f_loop"
    /\ UNCHANGED <<caller, hvars, pvars, report, report_tables, this_title, f_out>>

\* line 293
FReturnAll ==
    /\ pc = "f_loop"
    /\ tbl_idx > Len(report_tables)
    /\ f_out' = [kind |-> "return", cls |-> "", value |-> report_tables_processed]
    /\ pc' = "f_done"
    /\ UNCHANGED <<caller, hvars, pvars, report, report_tables, tbl_idx, this_title,
                   report_tables_processed>>

\* lines 226 and 322
FReturnOne ==
    /\ pc = "p_done" /\ caller = "fetch"
    /\ report \in {"comfort_keepers", "calls_clocks"}
    /\ p_out.kind = "return"
    /\ f_out' = [kind |-> "return", cls |-> "", value |-> rows]
    /\ pc' = "f_done"
    /\ UNCHANGED <<caller, hvars, pvars, report, report_tables, tbl_idx, this_title,
                   report_tables_processed>>

\* an exception raised by the extraction is not caught by the fetch
FParseRaised ==
    /\ pc = "p_done" /\ caller = "fetch"
    /\ p_out.kind = "raise"
    /\ f_out' = [kind |-> "raise", cls |-> p_out.cls, value |-> <<>>]
    /\ pc' = "f_done"
    /\ UNCHANGED <<caller, hvars, pvars, report, report_tables, tbl_idx, this_title,
                   report_tables_processed>>

FetchSteps ==
    FRequestRaised \/ FSelectOne \/ FSelectAll \/ FLoop \/ FAppend \/ FReturnAll
    \/ FReturnOne \/ FParseRaised

----------------------------------------------------------------------------

Init ==
    /\ pc = "idle"
    /\ caller = "none"
    /\ response = [status |-> 200, body |-> NoBody]
    /\ body_cache = <<>>
    /\ reads = 0
    /\ r_text = NoBody
    /\ marker_checked = FALSE
    /\ h_out = NoOutcome
    /\ table = [present |-> FALSE, rows |-> <<>>]
    /\ include_blank_rows = FALSE
    /\ headers = <<>>
    /\ row_idx = 0
    /\ rows = <<>>
    /\ p_out = [kind |-> "none", cls |-> ""]
    /\ report = "none"
    /\ report_tables = <<>>
    /\ tbl_idx = 0
    /\ this_title = <<>>
    /\ report_tables_processed = <<>>
    /\ f_out = NoResult

NextHandle == CallHandleResponse \/ HandleSteps

SpecHandle == Init /\ [][NextHandle]_vars

NextParse == CallParse \/ ParseSteps

SpecParse == Init /\ [][NextParse]_vars

Next == CallFetch \/ HandleSteps \/ ParseSteps \/ FetchSteps

Spec == Init /\ [][Next]_vars

----------------------------------------------------------------------------
(* Properties *)

\* helpers of the properties below
Status4xx == 400 <= response.status /\ response.status < 500
BodyHasLoginApp == Contains(LoginApp, Serialize(response.body))
NonBlankText(text) == \E j \in 1..Len(text) : text[j] \notin Whitespace
AllBlankCells(cells) == \A i \in 1..Len(cells) : ~NonBlankText(cells[i].text)
HeaderNames == {headers[j] : j \in 1..Len(headers)}
\* the positions, in source order, of the data rows that must be emitted
EmittedIdx ==
    SelectSeq([i \in 1..(Len(table.rows) - 1) |-> i + 1],
              LAMBDA i : include_blank_rows \/ ~AllBlankCells(TdCells(table.rows[i])))
ParseReturned == pc = "p_done" /\ p_out.kind = "return"

\* C1: _handle_response returns the body text exactly when the status is 200
\* and the body does not contain loginApp; a 200 body containing loginApp raises
\* IntegrationAuthError; and no outcome is produced for a 200 response before
\* the marker condition has been evaluated.
C1_SuccessIffOkWithoutMarker ==
    /\ pc = "h_done" =>
         /\ (h_out.kind = "return") <=> (response.status = 200 /\ ~BodyHasLoginApp)
         /\ h_out.kind = "return" => h_out.value = response.body
         /\ (response.status = 200 /\ BodyHasLoginApp) =>
                (h_out.kind = "raise" /\ h_out.cls = "IntegrationAuthError")
    /\ (h_out.kind # "none" /\ response.status = 200) => marker_checked

\* a 200 response containing loginApp outside the login div was rejected
C1_Witness ==
    /\ pc = "h_done"
    /\ response.status = 200
    /\ BodyHasLoginApp
    /\ ~Contains(LoginDiv, Serialize(response.body))
    /\ h_out.kind = "raise"

C3_BodyReadAtMostOnce == reads <= 1

\* C4: a present table without rows, or with a header row only, makes
\* _parse_table_rows_to_list return an empty list and raise nothing.
C4_NoRowsYieldsEmpty ==
    (pc = "p_done" /\ table.present /\ Len(table.rows) <= 1) =>
        (p_out.kind = "return" /\ rows = <<>>)

\* C5: every record collected has exactly the final headers as its keys,
\* however many cells its row has.
C5_RecordsShareHeaderKeys ==
    pc \in {"p_rows", "p_done"} =>
        \A k \in 1..Len(rows) : DOMAIN rows[k] = HeaderNames

\* records were returned for a row with fewer and a row with more td cells
\* than there are headers
C5_Witness ==
    /\ ParseReturned
    /\ Len(table.rows) = 3
    /\ Len(rows) = 2
    /\ Len(TdCells(table.rows[2])) < Len(headers)
    /\ Len(TdCells(table.rows[3])) > Len(headers)

\* C6: a data row whose td cells are all blank after trimming (or that has no
\* td cell) gives no record without include_blank_rows and one record of empty
\* strings with it; every data row with a non-blank td cell gives one record in
\* both modes; the records are in source row order.
C6_BlankRowsFiltered ==
    ParseReturned =>
        /\ Len(rows) = Len(EmittedIdx)
        /\ \A k \in 1..Len(EmittedIdx) :
             LET cells == TdCells(table.rows[EmittedIdx[k]])
             IN /\ k <= Len(rows)
                /\ rows[k] = RowData(headers, cells)
                /\ AllBlankCells(cells) =>
                       \A h \in DOMAIN rows[k] : rows[k][h] = <<>>

\* without include_blank_rows a blank data row was dropped and a later row kept
C6_Witness ==
    /\ ParseReturned
    /\ ~include_blank_rows
    /\ Len(table.rows) = 3
    /\ table.rows[2] # <<>>
    /\ AllBlankCells(TdCells(table.rows[2]))
    /\ Len(rows) = 1

ExampleTable ==
    << <<Th(<<"A">>), Th(<<"B">>)>>, <<Td(<<"x">>), Td(<<"y">>)>>, <<Td(<<"z">>)>> >>
ExampleRecords ==
    << [h \in {<<"A">>, <<"B">>} |-> IF h = <<"A">> THEN <<"x">> ELSE <<"y">>],
       [h \in {<<"A">>, <<"B">>} |-> IF h = <<"A">> THEN <<"z">> ELSE <<>>] >>

\* C8: with distinct header names, the value of an emitted record under the
\* header at position i is the trimmed text of the row's i-th td cell, or the
\* empty string when the row has fewer cells; cells past the last header appear
\* nowhere; and header [A, B] with rows (x, y), (z) gives
\* [{A: x, B: y}, {A: z, B: ""}].
C8_ValuesByPosition ==
    ParseReturned =>
        /\ (Cardinality(HeaderNames) = Len(headers) /\ Len(rows) = Len(EmittedIdx)) =>
             \A k \in 1..Len(rows) :
                LET cells == TdCells(table.rows[EmittedIdx[k]])
                IN /\ \A i \in 1..Len(headers) :
                        rows[k][headers[i]] =
                            IF i <= Len(cells) THEN Strip(cells[i].text) ELSE <<>>
                   /\ \A h \in DOMAIN rows[k] : \E i \in 1..Len(headers) : h = headers[i]
        /\ table.rows = ExampleTable => rows = ExampleRecords

\* the example table was extracted
C8_Witness ==
    /\ ParseReturned
    /\ table.rows = ExampleTable
    /\ rows = ExampleRecords

\* the tables of the fetched page that match the running report's selector
MatchingTables ==
    SelectSeq(response.body.tables, LAMBDA t : t.marker = SelectorOf(report))
FetchFinishedAfterSuccess == pc = "f_done" /\ h_out.kind = "return"

\* C9: fetch_activity_report returns one section per matching table, in page
\* order, each keyed by the text of the table's first row and holding the
\* records extracted from the rest of the table with the second row as header.
C9_OneSectionPerTable ==
    (FetchFinishedAfterSuccess /\ report = "activity") =>
        /\ f_out.kind = "return"
        /\ Len(f_out.value) = Len(MatchingTables)
        /\ \A k \in 1..Len(MatchingTables) :
             /\ k <= Len(f_out.value)
             /\ DOMAIN f_out.value[k] = {TitleOf(MatchingTables[k].rows[1])}
             /\ LET rest == Tail(MatchingTables[k].rows)
                    hs == PatchHeaders(HeaderRowHeaders(rest))
                    data == f_out.value[k][TitleOf(MatchingTables[k].rows[1])]
                IN \A n \in 1..Len(data) :
                        DOMAIN data[n] = {hs[j] : j \in 1..Len(hs)}

\* C10: when the classifier succeeded and no table of the page matches the
\* report's selector, the fetch returns an empty result and raises nothing.
C10_MissingTableYieldsEmpty ==
    (FetchFinishedAfterSuccess /\ MatchingTables = <<>>) =>
        (f_out.kind = "return" /\ f_out.value = <<>>)

====
